---- MODULE Spec2Model ----
(***************************************************************************)
(* Ticket session core of the modmail bot (src/mabel_modmail.py).          *)
(*                                                                         *)
(* The bot runs on one asyncio event loop: the code between two awaits of  *)
(* a handler is one atomic step, and handlers of different events          *)
(* interleave at their awaits.  Every handler invocation is a task; a      *)
(* task's pc names the await it is suspended at.  Tasks carry no identity: *)
(* the suspended ones form a bag, the ended ones a set.  The Tickets       *)
(* collection (MongoDB) and the guild's channels (Discord) live outside    *)
(* the process.                                                            *)
(***************************************************************************)
EXTENDS Integers, Sequences, FiniteSets, Bags, TLC

\* ------------------------------------------------------------- bounds
NumUsers == 2        \* users that may DM the bot
MaxChannels == 2     \* ticket channels Discord hands out in one behaviour
MaxTasks == 2        \* handler invocations (events) in one behaviour

\* ------------------------------------------------------------- values
\* Python's None; every Discord id is a positive integer.
None == 0

Users == 1 .. NumUsers

\* A guild channel outside the ticket category (category_id differs from
\* MODMAIL_CATEGORY_ID); it exists throughout.
GeneralChannel == 10

\* The ids create_text_channel returns: fresh, never reused.
TicketChannelIds == (GeneralChannel + 1) .. (GeneralChannel + MaxChannels)

\* str(n) of a non-negative int, as its sequence of decimal digits.
RECURSIVE ToStr(_)
ToStr(n) == IF n < 10 THEN <<n>> ELSE Append(ToStr(n \div 10), n % 10)

\* int(s) of a digit string; int("") raises ValueError, which both lookups
\* turn into None.
RECURSIVE ToInt(_)
ToInt(s) ==
    IF Len(s) = 0 THEN None
    ELSE IF Len(s) = 1 THEN s[1]
    ELSE 10 * ToInt(SubSeq(s, 1, Len(s) - 1)) + s[Len(s)]

\* The document insert_one writes for a ticket.
TicketDoc(user_id, channel_id) ==
    [id |-> ToStr(channel_id), user_id |-> ToStr(user_id)]

VARIABLES
    store,      \* the Tickets collection: a set of documents
    channels,   \* ids of the ticket-category channels that exist in the guild
    nextChan,   \* how many ticket channels Discord has created so far
    active,     \* ACTIVE_TICKET_CREATION
    config,     \* how GUILD_ID / MODMAIL_CATEGORY_ID resolve in this deployment
    running,    \* the handler invocations suspended at an await: a bag
    finished,   \* the handler invocations that have ended
    arrived,    \* how many events have arrived
    limit,      \* how many events the behaviour admits
    faulted,    \* an I/O call (store or Discord) has failed
    restarted   \* the process has been restarted

vars == <<store, channels, nextChan, active, config, running, finished, arrived, limit,
          faulted, restarted>>

\* ------------------------------------------------------------- the store
\* find_one({"user_id": key}): the documents it may return.
FindByUser(coll, key) == {d \in coll : d.user_id = key}

\* find_one({"_id": key}).
FindById(coll, key) == {d \in coll : d.id = key}

\* _id is the primary key of every collection.
PrimaryKeyFree(coll, doc) == \A d \in coll : d.id # doc.id

\* A faulty variant of UserIndexFree: the collection without its unique index.
UserIndexMissing(coll, doc) == TRUE

\* create_index("user_id", unique=True).
UserIndexFree(coll, doc) == \A d \in coll : d.user_id # doc.user_id

\* insert_one succeeds; otherwise it raises DuplicateKeyError.
InsertAccepted(coll, doc) == PrimaryKeyFree(coll, doc) /\ UserIndexFree(coll, doc)

\* delete_one({"user_id": key}): the collections it may leave.
DeleteOne(coll, key) ==
    IF FindByUser(coll, key) = {} THEN {coll}
    ELSE {coll \ {d} : d \in FindByUser(coll, key)}

\* A faulty variant of ChannelOfDoc: the wrong field of the document.
ChannelOfDocWrongField(doc) == ToInt(doc.user_id)

\* get_channel_id, lines 80-85: the channel id of a found document.
ChannelOfDoc(doc) == ToInt(doc.id)

\* get_user_id_from_channel, lines 131-136: the user id of a found document.
UserOfDoc(doc) == ToInt(doc.user_id)

\* What get_channel_id(user_id) may return when the store answers.
GetChannelId(coll, user_id) ==
    IF FindByUser(coll, ToStr(user_id)) = {} THEN {None}
    ELSE {ChannelOfDoc(d) : d \in FindByUser(coll, ToStr(user_id))}

\* What get_user_id_from_channel(channel_id) may return when the store answers.
GetUserIdFromChannel(coll, channel_id) ==
    IF FindById(coll, ToStr(channel_id)) = {} THEN {None}
    ELSE {UserOfDoc(d) : d \in FindById(coll, ToStr(channel_id))}

\* ------------------------------------------------------------- tasks
\* A handler invocation: its locals (user_id, channel_id, new_channel), what
\* it has delivered (sent), what it has printed or done (log), the exception
\* that left it (exc).  open, during and epoch record the moment of arrival:
\* whether a ticket was open for the event's user or channel, whether a
\* creation for the user held the guard, and the process run.
NewTask(kind, pc, user_id, channel_id) ==
    [kind |-> kind, pc |-> pc, user_id |-> user_id, channel_id |-> channel_id,
     new_channel |-> None, sent |-> {}, log |-> {}, exc |-> "None",
     open |-> IF kind = "dm" THEN {d \in store : d.user_id = ToStr(user_id)} # {}
              ELSE {d \in store : d.id = ToStr(channel_id)} # {},
     during |-> user_id \in active,
     epoch |-> IF restarted THEN 1 ELSE 0]

\* Every handler invocation so far.
Tasks == BagToSet(running) \cup finished

\* The suspended invocations of a handler at one of its awaits.
At(kind, pc) == {t \in BagToSet(running) : t.kind = kind /\ t.pc = pc}

\* An event arrives and its handler runs to its first await, or to its end.
Arrive(new) ==
    /\ arrived < limit
    /\ arrived' = arrived + 1
    /\ limit' = limit
    /\ IF new.pc = "done"
       THEN finished' = finished \cup {new} /\ UNCHANGED running
       ELSE running' = running (+) SetToBag({new}) /\ UNCHANGED finished

\* The event loop resumes task t, which runs to its next await, or to its end.
Set(t, new) ==
    /\ arrived' = arrived
    /\ limit' = limit
    /\ IF new.pc = "done"
       THEN /\ running' = running (-) SetToBag({t})
            /\ finished' = finished \cup {new}
       ELSE /\ running' = (running (-) SetToBag({t})) (+) SetToBag({new})
            /\ UNCHANGED finished

\* The task returns normally.
Return(task) == [task EXCEPT !.pc = "done"]

\* An exception leaves the handler.
Raise(task, e) == [task EXCEPT !.pc = "done", !.exc = e]

\* The I/O call of this step fails, or does not.
Fault == faulted' = TRUE
NoFault == faulted' = faulted

\* The collection and the guild outlive the process: at start-up (lines
\* 36-54) the collection is empty or holds the tickets of an earlier run,
\* each with its channel.
Persisted == {0, 1}

Init ==
    /\ nextChan \in Persisted
    /\ channels = {GeneralChannel + k : k \in 1 .. nextChan}
    /\ store = {TicketDoc(k, GeneralChannel + k) : k \in 1 .. nextChan}
    /\ active = {}
    /\ config \in {"ok", "noCategory", "noGuild"}
    /\ running = EmptyBag
    /\ finished = {}
    /\ arrived = 0
    /\ limit = MaxTasks
    /\ faulted = FALSE
    /\ restarted = FALSE

\* ------------------------------------------------------------- inbound DM
\* on_message for a DM: handle_dm_message starts and awaits get_channel_id.
DmArrives(u) ==
    /\ Arrive(NewTask("dm", "get_channel_id", u, None))
    /\ UNCHANGED <<store, channels, nextChan, active, config, faulted, restarted>>

\* get_channel_id: find_one runs in the thread pool.  It is not guarded: a
\* store failure is raised into handle_dm_message.
DmLookup(t) ==
    /\ t \in At("dm", "get_channel_id")
    /\ \/ /\ \E c \in GetChannelId(store, t.user_id) :
                Set(t, [t EXCEPT !.pc = "route", !.channel_id = c])
          /\ NoFault
       \/ /\ Fault
          /\ Set(t, Raise(t, "StoreUnavailable"))
    /\ UNCHANGED <<store, channels, nextChan, active, config, restarted>>

\* finally, lines 221-223 (and lines 195-196): the user leaves the set.
Release(guard, user_id) == guard \ {user_id}

\* except, lines 218-219: the failure of the insert is printed and the
\* handler ends without announcing.
InsertFailed(task, e) == Return([task EXCEPT !.log = {e}])

\* A faulty variant of NoTicketFound: the lookup's result is ignored.
NoTicketFoundAlways(channel_id) == TRUE

\* handle_dm_message, line 175.
NoTicketFound(channel_id) == channel_id = None

\* A faulty variant of CreationInFlight: the guard is never consulted.
CreationInFlightIgnored(user_id, guard) == FALSE

\* handle_dm_message, line 177.
CreationInFlight(user_id, guard) == user_id \in guard

\* handle_dm_message from line 175, then create_new_ticket up to its first
\* await (line 202) or forward_user_message.
DmRoute(t) ==
    /\ t \in At("dm", "route")
    /\ LET task == t
           u == t.user_id
       IN IF NoTicketFound(task.channel_id)
          THEN /\ NoFault
               /\ IF CreationInFlight(u, active)
                  THEN Set(t, Return(task)) /\ UNCHANGED active
                  ELSE CASE config = "noGuild" ->
                              \* line 189: guild is None, guild.categories raises
                              /\ active' = active \cup {u}
                              /\ Set(t, Raise(task, "AttributeError"))
                         [] config = "noCategory" ->
                              \* lines 192-197
                              /\ active' = Release(active \cup {u}, u)
                              /\ Set(t, Return([task EXCEPT !.log = {"InvalidConfig"}]))
                         [] OTHER ->
                              /\ active' = active \cup {u}
                              /\ Set(t, [task EXCEPT !.pc = "create_text_channel"])
          ELSE /\ UNCHANGED active
               /\ IF task.channel_id \in channels
                  THEN \/ /\ NoFault
                          /\ Set(t, Return([task EXCEPT !.sent = {"forward"}]))
                       \/ /\ Fault
                          /\ Set(t, Raise(task, "HTTPException"))
                  ELSE NoFault /\ Set(t, Return(task))
    /\ UNCHANGED <<store, channels, nextChan, config, restarted>>

\* guild.create_text_channel, line 202; a failure goes to except and finally.
DmCreateChannel(t) ==
    /\ t \in At("dm", "create_text_channel")
    /\ \/ /\ nextChan < MaxChannels
          /\ NoFault
          /\ nextChan' = nextChan + 1
          /\ channels' = channels \cup {GeneralChannel + nextChan + 1}
          /\ Set(t, [t EXCEPT !.pc = "create_ticket_mapping",
                                     !.new_channel = GeneralChannel + nextChan + 1])
          /\ UNCHANGED active
       \/ /\ Fault
          /\ active' = Release(active, t.user_id)
          /\ Set(t, Return([t EXCEPT !.log = {"HTTPException"}]))
          /\ UNCHANGED <<channels, nextChan>>
    /\ UNCHANGED <<store, config, restarted>>

\* create_ticket_mapping, line 204: insert_one; DuplicateKeyError and a store
\* failure go to except (line 218) and finally (line 221).
DmInsert(t) ==
    /\ t \in At("dm", "create_ticket_mapping")
    /\ LET task == t
           doc == TicketDoc(task.user_id, task.new_channel)
       IN \/ /\ InsertAccepted(store, doc)
             /\ NoFault
             /\ store' = store \cup {doc}
             /\ Set(t, [task EXCEPT !.pc = "announce"])
             /\ UNCHANGED active
          \/ /\ ~InsertAccepted(store, doc)
             /\ NoFault
             /\ active' = Release(active, task.user_id)
             /\ Set(t, InsertFailed(task, "DuplicateKeyError"))
             /\ UNCHANGED store
          \/ /\ Fault
             /\ active' = Release(active, task.user_id)
             /\ Set(t, InsertFailed(task, "StoreUnavailable"))
             /\ UNCHANGED store
    /\ UNCHANGED <<channels, nextChan, config, restarted>>

\* new_channel.send, line 216, then finally.
DmAnnounce(t) ==
    /\ t \in At("dm", "announce")
    /\ active' = Release(active, t.user_id)
    /\ \/ /\ t.new_channel \in channels
          /\ NoFault
          /\ Set(t, Return([t EXCEPT !.sent = {"announce"}]))
       \/ /\ Fault
          /\ Set(t, Return([t EXCEPT !.log = {"HTTPException"}]))
       \/ /\ t.new_channel \notin channels
          /\ NoFault
          /\ Set(t, Return([t EXCEPT !.log = {"NotFound"}]))
    /\ UNCHANGED <<store, channels, nextChan, config, restarted>>

\* ------------------------------------------------------------- staff commands
\* The channels a staff command can be typed in.
GuildChannels == channels \cup {GeneralChannel}

\* A faulty variant of WrongCategory: the category is not compared.
WrongCategoryNever(channel_id) == FALSE

\* ctx.channel.category_id != MODMAIL_CATEGORY_ID, lines 247 and 283.
WrongCategory(channel_id) == channel_id = GeneralChannel

\* ctx.send(msg) as the handler's last call: delivered, or raised.
CtxSendLast(task, msg) ==
    IF task.channel_id \in GuildChannels
    THEN Return([task EXCEPT !.sent = @ \cup {msg}])
    ELSE Raise(task, "NotFound")

\* A command arrives: the has_role check (a failed check raises MissingRole
\* before the body runs), then the body up to its first await.
CommandIssued(kind, c, hasRole) ==
    /\ c \in GuildChannels
    /\ LET task == NewTask(kind, "get_user_id_from_channel", None, c)
       IN Arrive(IF ~hasRole THEN Raise(task, "MissingRole")
                 ELSE IF WrongCategory(c) THEN CtxSendLast(task, "wrongCategory")
                 ELSE task)
    /\ UNCHANGED <<store, channels, nextChan, active, config, faulted, restarted>>

ReplyIssued(c, hasRole) == CommandIssued("reply", c, hasRole)

CloseIssued(c, hasRole) == CommandIssued("close", c, hasRole)

\* A faulty variant of UserFound: the lookup's result is not tested.
UserFoundAlways(user_id) == TRUE

\* if user_id: lines 252 and 288.
UserFound(user_id) == user_id # None

\* get_user_id_from_channel: find_one by _id in the thread pool; a store
\* failure is caught there (line 123) and the lookup returns None.
LookupByChannel(t, kind, pcFound, pcNone) ==
    /\ t \in At(kind, "get_user_id_from_channel")
    /\ \/ /\ NoFault
          /\ \E u \in GetUserIdFromChannel(store, t.channel_id) :
                Set(t, [t EXCEPT !.user_id = u,
                                        !.pc = IF UserFound(u) THEN pcFound ELSE pcNone])
       \/ /\ Fault
          /\ Set(t, [t EXCEPT !.pc = pcNone, !.log = {"LookupFailure"}])
    /\ UNCHANGED <<store, channels, nextChan, active, config, restarted>>

\* reply_to_ticket, line 250.
ReplyLookup(t) == LookupByChannel(t, "reply", "user_send", "report")

\* A faulty variant of Refused: the handler goes on to the confirmation.
RefusedConfirms(task) == [task EXCEPT !.pc = "confirm", !.log = {"Forbidden"}]

\* except discord.Forbidden, lines 264-265: the refusal is reported in the
\* channel and the handler returns.
Refused(task) == CtxSendLast([task EXCEPT !.log = {"Forbidden"}], "cannotDM")

\* reply_to_ticket, lines 252-265: client.get_user may miss its cache; user.send
\* delivers, is refused (Forbidden) or fails otherwise.
ReplyDeliver(t) ==
    /\ t \in At("reply", "user_send")
    /\ \/ /\ NoFault
          /\ Set(t, [t EXCEPT !.pc = "confirm", !.sent = {"userDM"}])
       \/ /\ NoFault
          /\ Set(t, [t EXCEPT !.pc = "report", !.log = {"UserNotCached"}])
       \/ /\ Fault
          /\ Set(t, Refused(t))
       \/ /\ Fault
          /\ Set(t, Raise(t, "HTTPException"))
    /\ UNCHANGED <<store, channels, nextChan, active, config, restarted>>

\* reply_to_ticket, lines 267-275: the confirmation after the one-second
\* sleep; deleting the command message is guarded.
ReplyConfirm(t) ==
    /\ t \in At("reply", "confirm")
    /\ \/ NoFault /\ Set(t, CtxSendLast(t, "confirm"))
       \/ Fault /\ Set(t, Raise(t, "HTTPException"))
    /\ UNCHANGED <<store, channels, nextChan, active, config, restarted>>

\* reply_to_ticket, line 277.
ReplyReport(t) ==
    /\ t \in At("reply", "report")
    /\ \/ NoFault /\ Set(t, CtxSendLast(t, "lookupFailed"))
       \/ Fault /\ Set(t, Raise(t, "HTTPException"))
    /\ UNCHANGED <<store, channels, nextChan, active, config, restarted>>

\* close_ticket, lines 286-288: with no user id the handler goes on to
\* line 299.
CloseLookup(t) == LookupByChannel(t, "close", "delete_ticket_mapping", "closing")

\* delete_ticket_mapping, line 291: delete_one by user_id; a store failure is
\* raised into close_ticket.  client.get_user (line 289) may miss its cache.
CloseDelete(t) ==
    /\ t \in At("close", "delete_ticket_mapping")
    /\ \/ /\ NoFault
          /\ store' \in DeleteOne(store, ToStr(t.user_id))
          /\ \E cached \in BOOLEAN :
                Set(t, [t EXCEPT !.pc = IF cached THEN "user_send" ELSE "closing",
                                        !.log = @ \cup {"deleted"}])
       \/ /\ Fault
          /\ Set(t, Raise(t, "StoreUnavailable"))
          /\ UNCHANGED store
    /\ UNCHANGED <<channels, nextChan, active, config, restarted>>

\* close_ticket, lines 293-297: the closure notice, guarded by a bare except.
CloseNotify(t) ==
    /\ t \in At("close", "user_send")
    /\ \/ NoFault /\ Set(t, [t EXCEPT !.pc = "closing", !.sent = @ \cup {"closed"}])
       \/ Fault /\ Set(t, [t EXCEPT !.pc = "closing", !.log = @ \cup {"CouldNotDM"}])
    /\ UNCHANGED <<store, channels, nextChan, active, config, restarted>>

\* close_ticket, line 299.
CloseAnnounce(t) ==
    /\ t \in At("close", "closing")
    /\ \/ /\ t.channel_id \in channels
          /\ NoFault
          /\ Set(t, [t EXCEPT !.pc = "sleep", !.sent = @ \cup {"closing"}])
       \/ /\ t.channel_id \notin channels
          /\ NoFault
          /\ Set(t, Raise(t, "NotFound"))
       \/ /\ Fault
          /\ Set(t, Raise(t, "HTTPException"))
    /\ UNCHANGED <<store, channels, nextChan, active, config, restarted>>

\* close_ticket, lines 300-301: ctx.channel.delete() after the grace delay.
CloseChannelDelete(t) ==
    /\ t \in At("close", "sleep")
    /\ \/ /\ t.channel_id \in channels
          /\ NoFault
          /\ channels' = channels \ {t.channel_id}
          /\ Set(t, Return([t EXCEPT !.log = @ \cup {"channelDeleted"}]))
       \/ /\ t.channel_id \notin channels
          /\ NoFault
          /\ Set(t, Raise(t, "NotFound"))
          /\ UNCHANGED channels
       \/ /\ Fault
          /\ Set(t, Raise(t, "HTTPException"))
          /\ UNCHANGED channels
    /\ UNCHANGED <<store, nextChan, active, config, restarted>>

\* ------------------------------------------------------------- restart
\* The process stops and starts again: ACTIVE_TICKET_CREATION is a fresh
\* set (line 57), the handlers in flight are gone; the collection and the
\* guild's channels are not the process's.
Restart ==
    /\ restarted' = TRUE
    /\ active' = {}
    /\ running' = EmptyBag
    /\ finished' = finished \cup {[t EXCEPT !.pc = "abandoned"] : t \in BagToSet(running)}
    /\ UNCHANGED <<store, channels, nextChan, config, arrived, limit, faulted>>

Next ==
    \/ \E u \in Users : DmArrives(u)
    \/ \E t \in BagToSet(running) : DmLookup(t)
    \/ \E t \in BagToSet(running) : DmRoute(t)
    \/ \E t \in BagToSet(running) : DmCreateChannel(t)
    \/ \E t \in BagToSet(running) : DmInsert(t)
    \/ \E t \in BagToSet(running) : DmAnnounce(t)
    \/ \E c \in GuildChannels, r \in BOOLEAN : ReplyIssued(c, r)
    \/ \E t \in BagToSet(running) : ReplyLookup(t)
    \/ \E t \in BagToSet(running) : ReplyDeliver(t)
    \/ \E t \in BagToSet(running) : ReplyConfirm(t)
    \/ \E t \in BagToSet(running) : ReplyReport(t)
    \/ \E c \in GuildChannels, r \in BOOLEAN : CloseIssued(c, r)
    \/ \E t \in BagToSet(running) : CloseLookup(t)
    \/ \E t \in BagToSet(running) : CloseDelete(t)
    \/ \E t \in BagToSet(running) : CloseNotify(t)
    \/ \E t \in BagToSet(running) : CloseAnnounce(t)
    \/ \E t \in BagToSet(running) : CloseChannelDelete(t)
    \/ Restart

Spec == Init /\ [][Next]_vars

\* ------------------------------------------------------------- wider runs
\* One more event than Spec admits.
InitWide ==
    /\ nextChan \in Persisted
    /\ channels = {GeneralChannel + k : k \in 1 .. nextChan}
    /\ store = {TicketDoc(k, GeneralChannel + k) : k \in 1 .. nextChan}
    /\ active = {}
    /\ config \in {"ok", "noCategory", "noGuild"}
    /\ running = EmptyBag
    /\ finished = {}
    /\ arrived = 0
    /\ limit = MaxTasks + 1
    /\ faulted = FALSE
    /\ restarted = FALSE

SpecWide == InitWide /\ [][Next]_vars

\* A ticket channel is deleted in Discord by hand, not by close_ticket:
\* client.get_channel then returns None for it (lines 227-229).
ChannelRemoved(c) ==
    /\ c \in channels
    /\ channels' = channels \ {c}
    /\ UNCHANGED <<store, nextChan, active, config, running, finished, arrived, limit,
                   faulted, restarted>>

NextOob ==
    \/ Next
    \/ \E c \in channels : ChannelRemoved(c)

SpecOob == Init /\ [][NextOob]_vars

\* The event loop resumes a suspended handler.
Resumes ==
    \E t \in BagToSet(running) :
        \/ DmLookup(t) \/ DmRoute(t) \/ DmCreateChannel(t) \/ DmInsert(t) \/ DmAnnounce(t)
        \/ ReplyLookup(t) \/ ReplyDeliver(t) \/ ReplyConfirm(t) \/ ReplyReport(t)
        \/ CloseLookup(t) \/ CloseDelete(t) \/ CloseNotify(t) \/ CloseAnnounce(t)
        \/ CloseChannelDelete(t)

\* client.run serves events for as long as the process lives: once every
\* handler has ended, the ended invocations are forgotten and further events
\* are admitted.
NextBurst ==
    /\ running = EmptyBag
    /\ arrived > 0
    /\ arrived' = 0
    /\ finished' = {}
    /\ UNCHANGED <<store, channels, nextChan, active, config, running, limit,
                   faulted, restarted>>

NextOobForever ==
    \/ NextOob
    \/ NextBurst

\* Every awaited call completes or fails, so no handler stays suspended for
\* ever; and every user goes on sending DMs.
SpecOobFair ==
    /\ Init /\ [][NextOobForever]_vars
    /\ WF_vars(Resumes)
    /\ WF_vars(NextBurst)
    /\ \A u \in Users : SF_vars(DmArrives(u))

\* ------------------------------------------------------------- properties
DmTasks(u) == {t \in Tasks : t.kind = "dm" /\ t.user_id = u}

\* The channels create_text_channel has returned to handlers of u's DMs.
CreatedFor(u) == {t.new_channel : t \in {x \in DmTasks(u) : x.new_channel # None}}

\* A restart happens in this step: what the process holds in memory is gone.
RestartStep ==
    /\ restarted' /\ active' = {} /\ running' = EmptyBag /\ arrived' = arrived
    /\ finished' = finished \cup {[t EXCEPT !.pc = "abandoned"] : t \in BagToSet(running)}

\* Task t is resumed in this step: one copy of it leaves the bag.
Resumed(t) == CopiesIn(t, running') < CopiesIn(t, running) /\ ~RestartStep

\* Task new is what a resumed task has become in this step: one more copy
\* in the bag, or an ended invocation (ended invocations form a set, so an
\* equal one may have ended before).
Becomes(new) ==
    \/ CopiesIn(new, running') > CopiesIn(new, running)
    \/ new \in finished'

\* No two documents share a user or a channel.
Unique ==
    \A d1, d2 \in store : (d1.user_id = d2.user_id \/ d1.id = d2.id) => d1 = d2

\* Every document resolves in both directions.
Bidirectional ==
    \A u \in Users, c \in TicketChannelIds :
        TicketDoc(u, c) \in store =>
            /\ GetChannelId(store, u) = {c}
            /\ GetUserIdFromChannel(store, c) = {u}

\* Every document is the document of a user and a ticket channel.
WellFormed ==
    \A d \in store : \E u \in Users, c \in TicketChannelIds : d = TicketDoc(u, c)

\* C1: concurrent DMs of one user who has no ticket create exactly one
\* ticket and provision exactly one channel (with no I/O failure, no restart
\* and no close in the way): never two channels, never two documents, and
\* once all of them have ended exactly one of each.
C1_ExactlyOneTicketOneChannel ==
    \A u \in Users :
        ( /\ ~faulted /\ ~restarted /\ config = "ok"
          /\ \A t \in Tasks : t.kind # "close"
          /\ \A t \in DmTasks(u) : ~t.open ) =>
            /\ Cardinality(CreatedFor(u)) <= 1
            /\ Cardinality(FindByUser(store, ToStr(u))) <= 1
            /\ (DmTasks(u) # {} /\ DmTasks(u) \subseteq finished) =>
                   /\ Cardinality(CreatedFor(u)) = 1
                   /\ Cardinality(FindByUser(store, ToStr(u))) = 1

\* The creation attempts of u that hold the guard: past line 180, not ended.
CreationsInFlight(u) ==
    {t \in BagToSet(running) :
        /\ t.kind = "dm" /\ t.user_id = u
        /\ t.pc \in {"create_text_channel", "create_ticket_mapping", "announce"}}

\* C2: a user is in ACTIVE_TICKET_CREATION only while a creation attempt of
\* theirs is in flight; once the attempt has ended, whatever its exit path,
\* the user is out of the set.
C2_GuardReleasedOnEveryExit ==
    \A u \in active : CreationsInFlight(u) # {}

\* C3: with no I/O failure, a close command issued in the channel of an open
\* ticket raises no error, also when the ticket is closed twice, and the
\* close that finds the ticket gone reports that it was not found.
C3_CloseTwiceNoError ==
    ~faulted =>
        \A t \in Tasks :
            (t.kind = "close" /\ t.open /\ t.exc # "MissingRole") =>
                /\ t.exc = "None"
                /\ (t.pc = "done" /\ t.user_id = None) => "notFound" \in t.sent

\* C4: every ticket document (channelId, userId) of the store resolves in
\* both directions at once: get_channel_id(userId) is channelId and
\* get_user_id_from_channel(channelId) is userId.
C4_BidirectionalLookup == WellFormed /\ Bidirectional

\* A ticket that a DM created, announced in its channel and still open.
C4_Witness ==
    \E t \in finished :
        /\ t.kind = "dm" /\ "announce" \in t.sent
        /\ TicketDoc(t.user_id, t.new_channel) \in store
        /\ Cardinality(store) = 2

\* C5: the store holds at most one document per user and at most one per
\* channel; no step adds a document for a user (or channel) that has one, and
\* an insert attempted for such a user leaves the store as it was and does
\* not go on to announce a ticket.
C5_AtMostOneTicket ==
    /\ []Unique
    /\ [][ /\ \A d \in store' \ store :
                FindByUser(store, d.user_id) = {} /\ FindById(store, d.id) = {}
           /\ \A t \in At("dm", "create_ticket_mapping") :
                (FindByUser(store, ToStr(t.user_id)) # {} /\ Resumed(t)) =>
                    /\ store' = store
                    /\ ~Becomes([t EXCEPT !.pc = "announce"]) ]_vars

\* An insert was refused by the unique index on user_id.
C5_Witness ==
    \E t \in finished :
        /\ "DuplicateKeyError" \in t.log
        /\ FindByUser(store, ToStr(t.user_id)) # {}
        /\ TicketDoc(t.user_id, t.new_channel) \notin store

\* C6: a restart leaves the store as it is; after a restart every document
\* still resolves in both directions and none is duplicated; a DM whose
\* lookup runs while the user has a document gets that document's channel,
\* and a DM that got a channel is forwarded there and creates nothing.
C6_RestartKeepsTickets ==
    /\ [](restarted => (Unique /\ WellFormed /\ Bidirectional))
    /\ [](\A t \in Tasks :
            (t.kind = "dm" /\ t.channel_id # None) =>
                /\ t.new_channel = None
                /\ t.pc \in {"route", "done", "abandoned"}
                /\ t.sent \subseteq {"forward"})
    /\ [][ /\ RestartStep => (store' = store /\ channels' = channels)
           /\ \A t \in At("dm", "get_channel_id") : \A c \in TicketChannelIds :
                (TicketDoc(t.user_id, c) \in store /\ Resumed(t)) =>
                    \/ Becomes([t EXCEPT !.pc = "route", !.channel_id = c])
                    \/ Becomes(Raise(t, "StoreUnavailable")) ]_vars

\* After a restart, a DM of a user with a persisted ticket was forwarded into
\* the ticket's channel.
C6_Witness ==
    /\ restarted
    /\ \E t \in finished :
        /\ t.kind = "dm" /\ t.epoch = 1 /\ t.open
        /\ t.sent = {"forward"}
        /\ TicketDoc(t.user_id, t.channel_id) \in store

C8_OrphanReplyReports ==
    /\ [](\A t \in Tasks :
            (t.kind = "reply" /\ t.user_id = None) =>
                /\ "userDM" \notin t.sent
                /\ t.pc \in {"get_user_id_from_channel", "report", "done", "abandoned"}
                /\ (t.pc = "done" /\ t.exc = "None" /\ ~WrongCategory(t.channel_id))
                       => t.sent = {"lookupFailed"})
    /\ [][ \A t \in BagToSet(running) :
             (t.kind = "reply" /\ Resumed(t)) =>
                /\ store' = store /\ active' = active /\ channels' = channels
                /\ (t.pc = "get_user_id_from_channel"
                    /\ FindById(store, ToStr(t.channel_id)) = {}) =>
                       Becomes([t EXCEPT !.pc = "report"])
                       \/ Becomes([t EXCEPT !.pc = "report", !.log = {"LookupFailure"}])
         ]_vars

\* A reply in a channel of the category that had no document reported the
\* lookup failure.
C8_Witness ==
    \E t \in finished :
        /\ t.kind = "reply" /\ ~t.open /\ ~WrongCategory(t.channel_id)
        /\ t.user_id = None /\ t.log = {}
        /\ t.sent = {"lookupFailed"}

\* C9: no failure of a store or Discord call leaves a handler as an exception.
C9_NoExceptionEscapes ==
    \A t \in Tasks : t.exc \notin {"StoreUnavailable", "HTTPException", "NotFound"}

\* The store was unavailable during the lookup of task t.
LookupUnavailable(t) ==
    \/ "LookupFailure" \in t.log
    \/ t.kind = "dm" /\ t.exc = "StoreUnavailable"

\* C10: a DM or command whose lookup found the store unavailable is dropped:
\* it creates no channel, deletes no document and no channel, and when it has
\* ended a failure notice has been sent.
C10_StoreUnavailableDropsEvent ==
    \A t \in Tasks :
        LookupUnavailable(t) =>
            /\ t.new_channel = None
            /\ "deleted" \notin t.log
            /\ "channelDeleted" \notin t.log
            /\ "closing" \notin t.sent
            /\ t.pc = "done" => "lookupFailed" \in t.sent

\* C11: a reply or close command typed outside the ticket category, or by a
\* user without the staff role, ends at once: it looks nothing up, delivers
\* nothing but the wrong-category answer in its own channel, and its step
\* changes neither the store, the guard set nor the channels.
C11_RejectedCommandChangesNothing ==
    /\ [](\A t \in Tasks :
            ( /\ t.kind \in {"reply", "close"}
              /\ (t.channel_id = GeneralChannel \/ t.exc = "MissingRole") ) =>
                /\ t.pc = "done" /\ t.user_id = None /\ t.log = {}
                /\ t.sent \subseteq {"wrongCategory"}
                /\ t.exc = "None" => t.sent = {"wrongCategory"})
    /\ [][ (arrived' = arrived + 1 /\ running' = running) =>
             (store' = store /\ active' = active /\ channels' = channels) ]_vars

\* With ticket (11,1) open, a close typed outside the category and a reply
\* by a user without the role were both rejected, and the ticket is intact.
C11_Witness ==
    /\ TicketDoc(1, GeneralChannel + 1) \in store
    /\ GeneralChannel + 1 \in channels
    /\ \E t1, t2 \in finished :
        /\ t1.kind = "close" /\ t1.channel_id = GeneralChannel
        /\ t1.sent = {"wrongCategory"}
        /\ t2.kind = "reply" /\ t2.channel_id = GeneralChannel + 1
        /\ t2.exc = "MissingRole" /\ t2.sent = {}

\* C12: at most one creation attempt per user holds the guard at any time,
\* and (with no I/O failure) a DM that arrived while the guard was held for
\* its user never calls create_text_channel or insert_one.
C12_OneCreationInFlight ==
    /\ \A u \in Users :
        /\ Cardinality(CreationsInFlight(u)) <= 1
        /\ \A t \in CreationsInFlight(u) : CopiesIn(t, running) = 1
    /\ ~faulted =>
        \A t \in Tasks :
            (t.kind = "dm" /\ t.during) =>
                /\ t.new_channel = None
                /\ t.pc \notin {"create_text_channel", "create_ticket_mapping", "announce"}

\* The user's record points to a channel that exists.
Live(u) == \E d \in store : d.user_id = ToStr(u) /\ ToInt(d.id) \in channels

\* A DM of u found a record and was ended without a delivery and without an
\* error.
DroppedOnOrphan(u) ==
    \E t \in finished :
        /\ t.kind = "dm" /\ t.user_id = u /\ t.pc = "done"
        /\ t.channel_id # None /\ t.sent = {} /\ t.exc = "None"

\* A further DM of u is being handled.
FurtherMessage(u) == \E t \in BagToSet(running) : t.kind = "dm" /\ t.user_id = u

\* C13: a record whose channel was deleted by hand heals itself: once a DM of
\* the user has been dropped for it and a further DM of theirs is handled, the
\* user eventually has a record pointing to an existing channel (unless an
\* I/O failure or a restart intervenes).
C13_OrphanSelfHeals ==
    \A u \in Users :
        (DroppedOnOrphan(u) /\ FurtherMessage(u)) ~> (Live(u) \/ faulted \/ restarted)

\* C14: a DM of a user who has a record creates nothing, and ends delivered
\* into the recorded channel, or with the send's error, or with the anomaly
\* reported.
C14_RecordedUserIsForwarded ==
    \A t \in Tasks :
        (t.kind = "dm" /\ t.channel_id # None) =>
            /\ t.new_channel = None
            /\ t.pc \in {"route", "done", "abandoned"}
            /\ t.pc = "done" => (t.sent = {"forward"} \/ t.exc # "None" \/ t.log # {})

\* State NoTicket of a user: no document and no creation attempt.
NoTicket(coll, guard, u) == FindByUser(coll, ToStr(u)) = {} /\ u \notin guard

\* Some DM of u that called create_text_channel with result c (None: the call
\* failed) has ended with an error logged and nothing sent.
EndedUndelivered(u, c) ==
    \E new \in finished' :
        /\ new.kind = "dm" /\ new.user_id = u /\ new.new_channel = c
        /\ new.pc = "done" /\ new.sent = {} /\ new.log # {}

\* C15: when create_text_channel fails, the step leaves the user in NoTicket
\* (guard released, no document for them), writes no document, creates no
\* channel, delivers nothing, and starts no new attempt.
C15_ProvisioningFailureBackToNoTicket ==
    [][ \A t \in At("dm", "create_text_channel") :
          (Resumed(t) /\ nextChan' = nextChan) =>
              /\ NoTicket(store', active', t.user_id)
              /\ store' = store /\ channels' = channels
              /\ EndedUndelivered(t.user_id, None)
              /\ BagCardinality(running') < BagCardinality(running)
      ]_vars

\* C16: when insert_one fails after the channel was created, the step leaves
\* the user in NoTicket (guard released, no document for them), there is no
\* document for the new channel, and the handler ends with nothing sent into
\* the new channel.
C16_InsertFailureBackToNoTicket ==
    [][ \A t \in At("dm", "create_ticket_mapping") :
          (Resumed(t) /\ store' = store) =>
              /\ NoTicket(store', active', t.user_id)
              /\ FindById(store', ToStr(t.new_channel)) = {}
              /\ EndedUndelivered(t.user_id, t.new_channel)
              /\ BagCardinality(running') < BagCardinality(running)
      ]_vars

\* C17: a reply whose user.send was refused ends there: it has resolved the
\* user, delivered nothing to them, sent no confirmation, and reported the
\* refusal in the channel when it ended normally; and no step of a reply at
\* user.send changes the store, the guard set or the channels.
C17_RefusedReplyChangesNothing ==
    /\ [](\A t \in Tasks :
            (t.kind = "reply" /\ "Forbidden" \in t.log) =>
                /\ t.pc = "done" /\ t.user_id # None
                /\ "userDM" \notin t.sent /\ "confirm" \notin t.sent
                /\ t.exc = "None" => t.sent = {"cannotDM"})
    /\ [][ \A t \in At("reply", "user_send") :
             Resumed(t) => (store' = store /\ active' = active /\ channels' = channels)
         ]_vars

\* A reply in the channel of an open ticket was refused by the user's DM
\* settings and reported; the ticket's document and channel are still there.
C17_Witness ==
    \E t \in finished :
        /\ t.kind = "reply" /\ t.log = {"Forbidden"} /\ t.sent = {"cannotDM"}
        /\ TicketDoc(t.user_id, t.channel_id) \in store
        /\ t.channel_id \in channels

\* C18: a close only removes the document of its own channel: every document
\* that leaves the store in a step is the document of the channel in which the
\* close command resumed in that step was typed.
C18_CloseRemovesOwnRecordOnly ==
    [][ \A d \in store \ store' :
          \E t \in At("close", "delete_ticket_mapping") :
              Resumed(t) /\ d.id = ToStr(t.channel_id)
      ]_vars

\* C19: with no I/O failure, every document in the store points to a channel
\* that exists.
C19_NoOrphanedMapping ==
    ~faulted => \A d \in store : ToInt(d.id) \in channels

====
